---------------------------- MODULE Spec2Model ----------------------------
(***************************************************************************)
(* Model of scripts/mp_pl_comparer.py: the MP-vs-party-list comparison     *)
(* (compare_mp_and_pl) and the JSON export with its history file           *)
(* (export_results).                                                       *)
(*                                                                         *)
(* Python strings are sequences of one-character strings, so that          *)
(* startswith, slicing and replace are computed as the code computes them. *)
(* Python dicts are functions from keys to values (records); the empty     *)
(* dict, list and string are << >>.  A JSON null is None, a JSON integer   *)
(* is an integer, a JSON boolean is a boolean.  Where the code expects an  *)
(* object, a list or a string, the model knows these three kinds of wrong  *)
(* value; a JSON document of another wrong kind (a string where an object  *)
(* is expected, a float for a rank, ...) is not modelled.                  *)
(***************************************************************************)
EXTENDS Integers, Sequences, FiniteSets, TLC

VARIABLES
    pc,            \* position of the script: "idle" | "loop" | "export"
    runs,          \* number of runs started so far
    exit,          \* how the last run ended: "none" | "running" | "no_dirs" | "ok" | "crashed"
    export_json,   \* the --export flag of the current run
    mp_files,      \* sorted list of the *.json names of data/mp (line 17)
    idx,           \* 1-based position of the for loop in mp_files
    all_rows,      \* line 23
    all_matches,   \* line 22
    party_counts,  \* line 106: the dict, as its items in insertion order
    console,       \* the lines printed by the current run
    cur,           \* the files read by the last loop iteration
    results_file,  \* docs/data/results.json
    history_file,  \* docs/data/history.json
    output_dir,    \* what the path docs/data is: "absent" | "blocked" | "dir" | "file"
    dirs,          \* what data/mp and data/pl were when the run started
    before         \* docs/data and the two output files as the current run found them

vars == <<pc, runs, exit, export_json, mp_files, idx, all_rows, all_matches,
          party_counts, console, cur, results_file, history_file, output_dir,
          dirs, before>>

----------------------------------------------------------------------------
(* Bounds of the model *)

\* longest run of arbitrary entries in a modelled party-list file
MaxTail == 2
\* runs of the script in one behaviour of SpecRuns
MaxRuns == 2
\* largest magnitude of a JSON integer
MaxInt == 1000

(* Constants of the program *)

\* pl_data.get("entries", [])[:7]
TopN == 7
\* pl_party_code[-2:]
SuffixLen == 2
\* bits of the significand of a Python float
Mantissa == 53
\* bits of one digit of the float arithmetic
LimbBits == 10

----------------------------------------------------------------------------
(* Python values *)

None == <<"None">>

(* The kind of a value is read off the way it is written, which is defined *)
(* for a value of every kind.                                              *)
NoneNames == {ToString(None)}

IntNames == {ToString(n) : n \in -MaxInt..MaxInt}

BoolNames == {ToString(TRUE), ToString(FALSE)}

ScalarNames == NoneNames \cup IntNames \cup BoolNames

FalsyNames == {ToString(None), ToString(<<>>), ToString(0), ToString(FALSE)}

\* v is None
IsNone(v) == ToString(v) \in NoneNames

\* v is an int (and no bool)
IsInt(v) == ToString(v) \in IntNames

\* v is True or False
IsBool(v) == ToString(v) \in BoolNames

\* v is None, a number or a bool: it has no .get, no slice and no startswith
Scalar(v) == ToString(v) \in ScalarNames

\* the exceptions a null raises inside the try of the loop
AttributeError == [raises |-> "AttributeError"]

TypeError == [raises |-> "TypeError"]

RaisedNames == {ToString(AttributeError), ToString(TypeError)}

\* v stands for a raised exception
Raised(v) == ToString(v) \in RaisedNames

\* code points order the characters that occur (sorted() compares by code point)
Alphabet == <<" ", "(", ")", ",", "-", ".", "0", "1", "2", "3", "4", "5", "6",
              "7", "8", "9", ":", "A", "B", "C", "D", "E", "H", "I", "K", "L",
              "M", "N", "P", "R", "T", "U", "a", "c", "e", "h", "i", "j", "k",
              "l", "n", "o", "r", "s", "t", "u", "w", "x", "y">>

Ord(c) == CHOOSE i \in 1..Len(Alphabet) : Alphabet[i] = c

\* s < t for Python strings
RECURSIVE StrLess(_, _)
StrLess(s, t) ==
    IF t = <<>> THEN FALSE
    ELSE IF s = <<>> THEN TRUE
    ELSE IF s[1] = t[1] THEN StrLess(Tail(s), Tail(t))
    ELSE Ord(s[1]) < Ord(t[1])

\* s.startswith(p)
StartsWith(s, p) == Len(p) <= Len(s) /\ SubSeq(s, 1, Len(p)) = p

\* s.endswith(p)
EndsWith(s, p) == Len(p) <= Len(s) /\ SubSeq(s, Len(s) - Len(p) + 1, Len(s)) = p

\* s[n:]
DropFirst(s, n) == SubSeq(s, n + 1, Len(s))

\* s[:n]
TakeFirst(s, n) == SubSeq(s, 1, IF n < Len(s) THEN n ELSE Len(s))

\* s[-n:]
TakeLast(s, n) == IF Len(s) <= n THEN s ELSE SubSeq(s, Len(s) - n + 1, Len(s))

\* s.replace(old, new), old non-empty: leftmost non-overlapping occurrences
RECURSIVE Replace(_, _, _)
Replace(s, old, new) ==
    IF s = <<>> THEN <<>>
    ELSE IF StartsWith(s, old) THEN new \o Replace(DropFirst(s, Len(old)), old, new)
    ELSE <<s[1]>> \o Replace(Tail(s), old, new)

\* d.get(k, default)
Get(d, k, default) == IF k \in DOMAIN d THEN d[k] ELSE default

Digits == <<"0", "1", "2", "3", "4", "5", "6", "7", "8", "9">>

\* str(n) for a natural number n
RECURSIVE NatStr(_)
NatStr(n) == IF n < 10 THEN <<Digits[n + 1]>>
             ELSE NatStr(n \div 10) \o <<Digits[(n % 10) + 1]>>

\* str(n) for an int n
IntStr(n) == IF n < 0 THEN <<"-">> \o NatStr(0 - n) ELSE NatStr(n)

\* str(v) inside an f-string, for None, a bool, an int or a string
Str(v) ==
    IF IsNone(v) THEN <<"N", "o", "n", "e">>
    ELSE IF IsBool(v) THEN (IF v THEN <<"T", "r", "u", "e">>
                                 ELSE <<"F", "a", "l", "s", "e">>)
    ELSE IF IsInt(v) THEN IntStr(v)
    ELSE v

\* sep.join(parts)
RECURSIVE Join(_, _)
Join(sep, parts) ==
    IF parts = <<>> THEN <<>>
    ELSE IF Len(parts) = 1 THEN parts[1]
    ELSE parts[1] \o sep \o Join(sep, Tail(parts))

\* sorted(S) for a set of strings
RECURSIVE SortedStrings(_)
SortedStrings(S) ==
    IF S = {} THEN <<>>
    ELSE LET m == CHOOSE x \in S : \A y \in S \ {x} : StrLess(x, y)
         IN  <<m>> \o SortedStrings(S \ {m})

----------------------------------------------------------------------------
(* The matcher: the body of the for loop, lines 25-99 *)

JsonExt == <<".", "j", "s", "o", "n">>

CandidatePrefix == <<"C", "A", "N", "D", "I", "D", "A", "T", "E", "-", "M", "P", "-">>

Unknown == <<"U", "n", "k", "n", "o", "w", "n">>

NoMatch == <<"N", "o", " ", "M", "a", "t", "c", "h">>

MatchHead == <<"M", "A", "T", "C", "H", ":", " ">>

\* area_code = filename.replace(".json", "")
AreaCode(filename) == Replace(filename, JsonExt, <<>>)

\* prefix = f"CANDIDATE-MP-{area_code}"
Prefix(area_code) == CandidatePrefix \o area_code

\* mutant of MpNumber: the prefix is cut off without being looked at
MpNumber_Unchecked(winning_candidate, area_code) ==
    IF Scalar(winning_candidate) THEN AttributeError
    ELSE DropFirst(winning_candidate, Len(Prefix(area_code)))

\* winning_candidate[len(prefix):] if winning_candidate.startswith(prefix) else None;
\* a candidateCode that is no string has no startswith
MpNumber(winning_candidate, area_code) ==
    IF Scalar(winning_candidate) THEN AttributeError
    ELSE IF StartsWith(winning_candidate, Prefix(area_code))
    THEN DropFirst(winning_candidate, Len(Prefix(area_code)))
    ELSE None

\* `not v`: None, the empty string, list and dict, 0 and False are falsy
Falsy(v) == ToString(v) \in FalsyNames

\* mutant of Top7: the 8 entries the docstring speaks of
Top7_Eight(pl_data) ==
    LET entries == Get(pl_data, "entries", <<>>)
    IN  IF Scalar(entries) THEN TypeError ELSE TakeFirst(entries, TopN + 1)

\* pl_data.get("entries", [])[:7]; an "entries" that is null has no slice
Top7(pl_data) ==
    LET entries == Get(pl_data, "entries", <<>>)
    IN  IF Scalar(entries) THEN TypeError ELSE TakeFirst(entries, TopN)

\* pl_party_code[-2:]
Last2(pl_party_code) == TakeLast(pl_party_code, SuffixLen)

\* mutant of Excluded: 09 is forgotten
Excluded_OnlySix == {<<"0", "6">>}

\* the list ["06", "09"]
Excluded == {<<"0", "6">>, <<"0", "9">>}

\* mutant of IsMatch: the MP number need only end last_2
IsMatch_Suffix(last_2, mp_number) ==
    /\ last_2 \notin {<<"0", "6">>, <<"0", "9">>}
    /\ mp_number # <<>> /\ EndsWith(last_2, mp_number)

\* the two tests of the scan: not excluded, and last_2 == mp_number
IsMatch(last_2, mp_number) == last_2 \notin Excluded /\ last_2 = mp_number

\* f"Rank {match_info['pl_rank']} (Party List {last_2})"
MatchLabel(pl_rank, last_2) ==
    <<"R", "a", "n", "k", " ">> \o Str(pl_rank)
        \o <<" ", "(", "P", "a", "r", "t", "y", " ", "L", "i", "s", "t", " ">>
        \o last_2 \o <<")">>

MatchInfo(area_code, mp_number, mp_party, pl_entry) ==
    [area          |-> area_code,
     mp_number     |-> mp_number,
     mp_party      |-> mp_party,
     pl_rank       |-> Get(pl_entry, "rank", None),
     pl_party_code |-> Get(pl_entry, "partyCode", <<>>)]

\* The for loop over pl_entries.  An entry that is null raises at
\* pl_entry.get, a partyCode that is no string at pl_party_code[-2:]; what was
\* appended before stays appended.
RECURSIVE ScanPL(_, _, _, _)
ScanPL(pl_entries, area_code, mp_number, mp_party) ==
    IF pl_entries = <<>>
    THEN [matches |-> <<>>, labels |-> <<>>, raised |-> FALSE]
    ELSE LET pl_entry      == pl_entries[1]
             pl_party_code == Get(pl_entry, "partyCode", <<>>)
         IN  IF Scalar(pl_entry) \/ Scalar(pl_party_code)
             THEN [matches |-> <<>>, labels |-> <<>>, raised |-> TRUE]
             ELSE LET last_2 == Last2(pl_party_code)
                      hit    == IsMatch(last_2, mp_number)
                      rest   == ScanPL(Tail(pl_entries), area_code, mp_number, mp_party)
                      info   == MatchInfo(area_code, mp_number, mp_party, pl_entry)
                  IN  [matches |-> (IF hit THEN <<info>> ELSE <<>>) \o rest.matches,
                       labels  |-> (IF hit THEN <<MatchLabel(info.pl_rank, last_2)>>
                                           ELSE <<>>) \o rest.labels,
                       raised  |-> rest.raised]

\* status = "MATCH: " + ", ".join(matches) if matches else "No Match"
Status(labels) ==
    IF labels # <<>> THEN MatchHead \o Join(<<",", " ">>, labels) ELSE NoMatch

Row(area_code, mp_number, mp_party, labels) ==
    [area      |-> area_code,
     mp_number |-> mp_number,
     mp_party  |-> mp_party,
     matched   |-> Len(labels) > 0,
     status    |-> Status(labels)]

\* what one iteration adds: rows, matches and printed lines
Nothing == [rows |-> <<>>, matches |-> <<>>, lines |-> <<>>]

ErrorLine(area_code) == <<"error", area_code>>

\* lines 53-96, entered with a truthy mp_number
MatchArea(area_code, mp_number, mp_party, pl) ==
    \* open or json.load raises, or the document is null and has no .get
    IF pl.kind = "unreadable" \/ Scalar(pl.obj)
    THEN [Nothing EXCEPT !.lines = <<ErrorLine(area_code)>>]
    ELSE IF Raised(Top7(pl.obj))
    THEN [Nothing EXCEPT !.lines = <<ErrorLine(area_code)>>]
    ELSE LET scan == ScanPL(Top7(pl.obj), area_code, mp_number, mp_party)
             row  == Row(area_code, mp_number, mp_party, scan.labels)
         IN  IF scan.raised
             THEN [rows |-> <<>>, matches |-> scan.matches,
                   lines |-> <<ErrorLine(area_code)>>]
             \* f"{mp_party:<10}" raises for None, after the row was appended
             ELSE IF IsNone(mp_party)
             THEN [rows |-> <<row>>, matches |-> scan.matches,
                   lines |-> <<ErrorLine(area_code)>>]
             ELSE [rows |-> <<row>>, matches |-> scan.matches,
                   lines |-> <<<<"row", area_code, row.status>>>>]

\* lines 26-99: one iteration of the for loop
LoopBody(filename, mp, pl) ==
    LET area_code == AreaCode(filename)
    IN  IF pl.kind = "missing" THEN Nothing
        \* open or json.load raises, or the document is null and has no .get
        ELSE IF mp.kind = "unreadable" \/ Scalar(mp.obj)
        THEN [Nothing EXCEPT !.lines = <<ErrorLine(area_code)>>]
        ELSE LET mp_entries == Get(mp.obj, "entries", <<>>)
             IN  IF Falsy(mp_entries) THEN Nothing
                 \* mp_entries[0] of a number, top_mp.get of a null
                 ELSE IF Scalar(mp_entries) \/ Scalar(mp_entries[1])
                 THEN [Nothing EXCEPT !.lines = <<ErrorLine(area_code)>>]
                 ELSE LET top_mp            == mp_entries[1]
                          winning_candidate == Get(top_mp, "candidateCode", <<>>)
                          mp_party          == Get(top_mp, "partyCode", Unknown)
                          mp_number         == MpNumber(winning_candidate, area_code)
                      IN  IF Raised(mp_number)
                          THEN [Nothing EXCEPT !.lines = <<ErrorLine(area_code)>>]
                          ELSE IF Falsy(mp_number) THEN Nothing
                          ELSE MatchArea(area_code, mp_number, mp_party, pl)

----------------------------------------------------------------------------
(* The summary, lines 101-122, and export_results, lines 128-181 *)

\* what a dict tells keys apart by: True and 1 are one key, False and 0 are
\* one key, and values of different kinds are different keys otherwise
Key(v) == IF IsBool(v) THEN ToString(IF v THEN 1 ELSE 0) ELSE ToString(v)

\* party_counts[p] = party_counts.get(p, 0) + 1, on the dict's items: the
\* dict keeps the key it saw first
Bump(items, p) ==
    IF \E i \in 1..Len(items) : Key(items[i][1]) = Key(p)
    THEN [i \in 1..Len(items) |->
             IF Key(items[i][1]) = Key(p) THEN <<items[i][1], items[i][2] + 1>>
             ELSE items[i]]
    ELSE Append(items, <<p, 1>>)

\* the for loop of lines 111-113
RECURSIVE CountParties(_, _)
CountParties(matches, items) ==
    IF matches = <<>> THEN items
    ELSE CountParties(Tail(matches), Bump(items, matches[1].mp_party))

\* sort key and direction of lines 116 and 141: count, descending
Before(a, b) == a[2] > b[2]

\* insert x behind every element that is not behind it (keeps the sort stable)
RECURSIVE InsertSorted(_, _)
InsertSorted(sorted, x) ==
    IF sorted = <<>> THEN <<x>>
    ELSE IF Before(x, sorted[1]) THEN <<x>> \o sorted
    ELSE <<sorted[1]>> \o InsertSorted(Tail(sorted), x)

\* sorted(party_counts.items(), key=lambda item: item[1], reverse=True)
RECURSIVE SortedParties(_)
SortedParties(items) ==
    IF items = <<>> THEN <<>>
    ELSE InsertSorted(SortedParties(SubSeq(items, 1, Len(items) - 1)),
                      items[Len(items)])

\* f"{party:<20}" without its padding: a string as it is, a number in
\* decimal, a bool as the number it is
Formatted(v) ==
    IF IsBool(v) THEN (IF v THEN <<"1">> ELSE <<"0">>)
    ELSE IF IsInt(v) THEN IntStr(v)
    ELSE v

\* the table of lines 118-121; f"{party:<20}" raises for None, which ends the
\* run: the lines before it were printed
RECURSIVE TableLines(_)
TableLines(sorted) ==
    IF sorted = <<>> THEN [lines |-> <<>>, raised |-> FALSE]
    ELSE IF IsNone(sorted[1][1]) THEN [lines |-> <<>>, raised |-> TRUE]
    ELSE LET rest == TableLines(Tail(sorted))
         IN  [lines  |-> <<<<"count", Formatted(sorted[1][1]), sorted[1][2]>>>>
                             \o rest.lines,
              raised |-> rest.raised]

(* Float arithmetic, for num <= den < 2^21.  A natural number is written  *)
(* as its digits in base 2^10, most significant first; a positive float is *)
(* [m |-> digits, e |-> n], the number m * 2^e, with m of at most 53 bits. *)

RECURSIVE Pow2(_)
Pow2(n) == IF n = 0 THEN 1 ELSE 2 * Pow2(n - 1)

Base == Pow2(LimbBits)

RECURSIVE Limbs(_)
Limbs(n) == IF n = 0 THEN <<>> ELSE Append(Limbs(n \div Base), n % Base)

RECURSIVE LimbsNat(_)
LimbsNat(d) ==
    IF d = <<>> THEN 0
    ELSE LimbsNat(SubSeq(d, 1, Len(d) - 1)) * Base + d[Len(d)]

\* d * k + c, exactly
RECURSIVE MulCarry(_, _, _)
MulCarry(d, k, c) ==
    IF d = <<>> THEN Limbs(c)
    ELSE Append(MulCarry(SubSeq(d, 1, Len(d) - 1), k, (d[Len(d)] * k + c) \div Base),
                (d[Len(d)] * k + c) % Base)

RECURSIVE StripZeros(_)
StripZeros(d) == IF d # <<>> /\ d[1] = 0 THEN StripZeros(Tail(d)) ELSE d

\* the number of bits of d, which has no leading zero
BitLen(d) ==
    IF d = <<>> THEN 0
    ELSE LimbBits * (Len(d) - 1)
             + CHOOSE k \in 0..LimbBits :
                   /\ Pow2(k) > d[1]
                   /\ \A j \in 0..(k - 1) : Pow2(j) <= d[1]

\* bit j of d, counted from the least significant, which is bit 0
Bit(d, j) ==
    LET i == Len(d) - j \div LimbBits
    IN  IF i < 1 THEN 0 ELSE (d[i] \div Pow2(j % LimbBits)) % 2

\* d % 2^j is not 0
LowBits(d, j) ==
    LET i == Len(d) - j \div LimbBits
    IN  \/ \E k \in DOMAIN d : k > i /\ d[k] # 0
        \/ i >= 1 /\ d[i] % Pow2(j % LimbBits) # 0

\* d \div 2^n
ShiftRight(d, n) ==
    LET w    == n \div LimbBits
        s    == n % LimbBits
        kept == IF w < Len(d) THEN SubSeq(d, 1, Len(d) - w) ELSE <<>>
    IN  [i \in 1..Len(kept) |->
            ((IF i > 1 THEN kept[i - 1] ELSE 0) % Pow2(s)) * Pow2(LimbBits - s)
                + kept[i] \div Pow2(s)]

\* d + 1
Increment(d) ==
    IF \A i \in DOMAIN d : d[i] = Base - 1
    THEN <<1>> \o [i \in 1..Len(d) |-> 0]
    ELSE LET p == CHOOSE i \in DOMAIN d :
                      d[i] # Base - 1 /\ \A j \in DOMAIN d : j > i => d[j] = Base - 1
         IN  [i \in 1..Len(d) |->
                 IF i < p THEN d[i] ELSE IF i = p THEN d[i] + 1 ELSE 0]

\* the float nearest to d * 2^e, ties to the even significand
RoundFloat(d, e) ==
    LET sig  == StripZeros(d)
        drop == BitLen(sig) - Mantissa
        kept == ShiftRight(sig, drop)
        up   == /\ Bit(sig, drop - 1) = 1
                /\ LowBits(sig, drop - 1) \/ kept[Len(kept)] % 2 = 1
    IN  IF drop <= 0 THEN [m |-> sig, e |-> e]
        ELSE [m |-> IF up THEN Increment(kept) ELSE kept, e |-> e + drop]

\* the first n digits of r / den behind the point (r < den), and the
\* remainder they leave
RECURSIVE FracLimbs(_, _, _)
FracLimbs(r, den, n) ==
    IF n = 0 THEN [digits |-> <<>>, r |-> r]
    ELSE LET rest == FracLimbs((r * Base) % den, den, n - 1)
         IN  [digits |-> <<(r * Base) \div den>> \o rest.digits, r |-> rest.r]

\* num / den for ints num > 0 and den > 0: the quotient to 80 binary places
\* and one more bit that says whether it is inexact
FloatDiv(num, den) ==
    LET places == 8
        frac   == FracLimbs(num % den, den, places)
        sticky == IF frac.r # 0 THEN 1 ELSE 0
    IN  RoundFloat(MulCarry(Limbs(num \div den) \o frac.digits, 2, sticky),
                   0 - (LimbBits * places + 1))

\* x * 100
Times100(x) == RoundFloat(MulCarry(x.m, 100, 0), x.e)

\* round(x, 2) in hundredths: the integer nearest to the number x * 100, ties
\* to even
RoundHundredths(x) ==
    LET q   == MulCarry(x.m, 100, 0)
        cut == 0 - x.e
        n   == LimbsNat(ShiftRight(q, cut))
    IN  IF cut <= 0 THEN LimbsNat(q) * Pow2(x.e)
        ELSE IF Bit(q, cut - 1) = 1 /\ (LowBits(q, cut - 1) \/ n % 2 = 1) THEN n + 1
        ELSE n

\* round(num / den * 100, 2), in hundredths
Round2(num, den) ==
    IF num = 0 THEN 0 ELSE RoundHundredths(Times100(FloatDiv(num, den)))

\* sum(1 for r in all_rows if r["matched"])
MatchedAreas(rows) == Len(SelectSeq(rows, LAMBDA r : r.matched))

\* round(matched_areas / total_areas * 100, 2) if total_areas > 0 else 0
MatchRate(rows) ==
    IF Len(rows) > 0 THEN Round2(MatchedAreas(rows), Len(rows)) ELSE 0

\* summary = [{"party_code": p, "match_count": c} for p, c in sorted_parties]
SummaryByParty(items) ==
    LET sorted == SortedParties(items)
    IN  [i \in 1..Len(sorted) |->
            [party_code |-> sorted[i][1], match_count |-> sorted[i][2]]]

\* the results dict of lines 144-152
Results(timestamp, rows, matches, items) ==
    [timestamp        |-> timestamp,
     total_areas      |-> Len(rows),
     matched_areas    |-> MatchedAreas(rows),
     match_rate       |-> MatchRate(rows),
     summary_by_party |-> SummaryByParty(items),
     matches          |-> matches,
     details          |-> rows]

\* the snapshot of lines 170-176
Snapshot(results) ==
    [timestamp        |-> results.timestamp,
     total_areas      |-> results.total_areas,
     matched_areas    |-> results.matched_areas,
     match_rate       |-> results.match_rate,
     summary_by_party |-> results.summary_by_party]

(* A path of an output file is absent, or is a directory ("dir"), or is a   *)
(* file that holds text that json.load rejects ("corrupt"), a JSON array   *)
(* ("array", with its elements), or another JSON value ("object").         *)
Absent == [kind |-> "absent", val |-> <<>>]

Directory == [kind |-> "dir", val |-> <<>>]

Corrupt == [kind |-> "corrupt", val |-> <<>>]

JsonObject == [kind |-> "object", val |-> <<>>]

JsonArray(elems) == [kind |-> "array", val |-> elems]

\* lines 162-168: history = [] unless the file exists and json.load returns
\* (open raises for a directory, inside the try)
LoadHistory(file) ==
    IF file.kind \in {"absent", "corrupt", "dir"} THEN JsonArray(<<>>) ELSE file

\* open(path, "w") raises IsADirectoryError for a directory
CanWrite(file) == file.kind # "dir"

\* history.append(...) raises AttributeError on a value that is no list
CanAppend(history) == history.kind = "array"

----------------------------------------------------------------------------
(* The files a run may find *)

\* data/mp/<area>.json: unreadable (open or json.load raises) or a JSON object
MPUnreadable == [kind |-> "unreadable", obj |-> <<>>]

MPObject(obj) == [kind |-> "object", obj |-> obj]

\* data/pl/<area>.json: missing, unreadable or a JSON object
PLMissing == [kind |-> "missing", obj |-> <<>>]

PLUnreadable == [kind |-> "unreadable", obj |-> <<>>]

PLObject(obj) == [kind |-> "object", obj |-> obj]

PartyA == <<"P", "A">>

PartyB == <<"P", "B">>

\* the runner-up of every modelled constituency
Loser(area_code) ==
    [candidateCode |-> Prefix(area_code) \o <<"0", "7">>, partyCode |-> <<"P", "C">>]

\* every sequence over S of length at most n
SeqsUpTo(S, n) == UNION {[1..m -> S] : m \in 0..n}

\* the shape of a party-list entry: its party code, if it has one, and
\* whether it has a rank
Ranked(code) == [code |-> code, ranked |-> TRUE, coded |-> TRUE]

Unranked(code) == [code |-> code, ranked |-> FALSE, coded |-> TRUE]

Uncoded == [code |-> <<>>, ranked |-> TRUE, coded |-> FALSE]

\* a party list: entry i has the i-th party code and, if it has a rank, rank i
Listed(shapes) ==
    [i \in 1..Len(shapes) |->
        IF ~shapes[i].coded THEN [rank |-> i]
        ELSE IF shapes[i].ranked THEN [partyCode |-> shapes[i].code, rank |-> i]
        ELSE [partyCode |-> shapes[i].code]]

FillerCode == <<"P", "1", "0", "1">>

Fillers(k) == [i \in 1..k |-> Ranked(FillerCode)]

(* A universe of file contents.  The MP files whose winner carries a       *)
(* number after the prefix of the area (Winners): every number with the    *)
(* main party, and the main number with every party field.  The MP files   *)
(* without such a number (NoNumber).  The party lists: a pad of filler     *)
(* entries followed by a tail of at most MaxTail entries of the shapes     *)
(* that go with the pad (PLFiles).  The script opens the party list only    *)
(* for a winner with a number; beside the other MP files stand the pads,   *)
(* alone or followed by one entry whose party code is empty or absent      *)
(* (PLPlain).                                                              *)
Winner(area_code, sfx, party_field) ==
    MPObject([entries |-> <<[candidateCode |-> Prefix(area_code) \o sfx] @@ party_field,
                            Loser(area_code)>>])

Winners(C, area_code) ==
    { Winner(area_code, sfx, C.party) : sfx \in C.suffixes } \cup
    { Winner(area_code, C.number, p) : p \in C.party_fields }

NoNumber(C, area_code) ==
    C.mp_other \cup
    { MPObject([entries |-> <<c @@ p, Loser(area_code)>>]) :
        c \in {[candidateCode |-> Prefix(area_code) \o sfx] : sfx \in C.blank}
                 \cup C.code_fields,
        p \in C.party_fields }

PLPlain(C) ==
    C.pl_other \cup
    UNION { { PLObject([entries |-> Listed(Fillers(L.pad) \o t)]) :
                t \in SeqsUpTo(C.plain_tail, 1) } : L \in C.lists }

PLFiles(C) ==
    C.pl_other \cup
    UNION { { PLObject([entries |-> Listed(Fillers(L.pad) \o t)]) :
                t \in SeqsUpTo(L.tail, MaxTail) } : L \in C.lists }

\* every case of the matcher: the tail of a party list sits near its head or
\* across the boundary of the first 7 entries
Wide ==
    [suffixes     |-> { <<"0", "5">>, <<"0", "6">>, <<"0", "9">>, <<"5">>,
                        <<"1", "0", "5">> },
     number       |-> <<"0", "5">>,
     party        |-> [partyCode |-> PartyA],
     blank        |-> { <<>> },
     plain_tail   |-> { Ranked(<<>>), Uncoded },
     code_fields  |-> { [candidateCode |-> CandidatePrefix \o <<"9", "9", "9", "0", "5">>],
                        [candidateCode |-> None],
                        <<>> },
     party_fields |-> { [partyCode |-> PartyA], [partyCode |-> None], <<>> },
     mp_other     |-> { MPUnreadable, MPObject(<<>>), MPObject([entries |-> <<>>]),
                        MPObject([entries |-> None]) },
     pl_other     |-> { PLMissing, PLUnreadable, PLObject(<<>>),
                        PLObject([entries |-> None]) },
     lists        |-> { [pad  |-> 2,
                         tail |-> { Ranked(FillerCode), Ranked(<<"P", "0", "5">>),
                                    Unranked(<<"P", "0", "5">>),
                                    Ranked(<<"P", "0", "6">>),
                                    Ranked(<<"P", "0", "9">>), Ranked(<<"5">>),
                                    Ranked(None) }],
                        [pad  |-> TopN + 1 - MaxTail,
                         tail |-> { Ranked(FillerCode), Ranked(<<"P", "0", "5">>),
                                    Uncoded }] }]

\* a constituency won with number 05
Narrow ==
    [suffixes     |-> { <<"0", "5">> },
     number       |-> <<"0", "5">>,
     party        |-> [partyCode |-> PartyA],
     blank        |-> {},
     plain_tail   |-> {},
     code_fields  |-> {},
     party_fields |-> { [partyCode |-> PartyA], [partyCode |-> PartyB],
                        [partyCode |-> None] },
     mp_other     |-> { MPUnreadable },
     pl_other     |-> { PLMissing },
     lists        |-> { [pad  |-> 0,
                         tail |-> { Ranked(FillerCode), Ranked(<<"P", "0", "5">>) }] }]

\* a second constituency, won with number 05, beside the first
Second ==
    [suffixes     |-> { <<"0", "5">> },
     number       |-> <<"0", "5">>,
     party        |-> [partyCode |-> PartyA],
     blank        |-> {},
     plain_tail   |-> {},
     code_fields  |-> {},
     party_fields |-> { [partyCode |-> PartyA], [partyCode |-> PartyB] },
     mp_other     |-> { MPUnreadable },
     pl_other     |-> {},
     lists        |-> { [pad  |-> 0, tail |-> { Ranked(<<"P", "0", "5">>) }] }]

File100 == <<"1", "0", "0">> \o JsonExt

File101 == <<"1", "0", "1">> \o JsonExt

Notes == <<"n", "o", "t", "e", "s", ".", "t", "x", "t">>

(* The inputs of a specification: the names data/mp may list, and what the *)
(* files of each area may hold.                                            *)
Rich ==
    [names |-> { File100, File101, Notes },
     files |-> (File100 :> Wide) @@ (File101 :> Second)]

Small ==
    [names |-> { File100, Notes },
     files |-> (File100 :> Narrow)]

\* a snapshot left by an earlier run
OldSnapshot ==
    [timestamp |-> 0, total_areas |-> 0, matched_areas |-> 0, match_rate |-> 0,
     summary_by_party |-> <<>>]

HistoryFiles ==
    { Absent, Directory, Corrupt, JsonObject, JsonArray(<<>>),
      JsonArray(<<OldSnapshot>>) }

ResultsFiles == { Absent, Directory }

----------------------------------------------------------------------------
(* The script *)

NoFiles == [read |-> FALSE, file |-> <<>>, mp |-> MPUnreadable, pl |-> PLMissing]

\* a path is absent, a directory or a regular file
PathKinds == {"absent", "dir", "file"}

\* docs/data besides: absent below a regular file docs ("blocked"), where
\* os.makedirs cannot create it
OutputKinds == PathKinds \cup {"blocked"}

\* os.makedirs(output_dir, exist_ok=True) returns: the path is a directory,
\* or absent with nothing in the way
CanMake(kind) == kind \in {"absent", "dir"}

\* what os.path.exists and open find at data/pl/<area>.json: nothing when
\* data/pl is a regular file
PLFound(files) == IF dirs.pl = "file" THEN {PLMissing} ELSE files

\* docs/data holds files only when it is a directory
InitWith(outs, results, histories) ==
    /\ pc = "idle"
    /\ runs = 0
    /\ exit = "none"
    /\ export_json = FALSE
    /\ mp_files = <<>>
    /\ idx = 1
    /\ all_rows = <<>>
    /\ all_matches = <<>>
    /\ party_counts = <<>>
    /\ console = <<>>
    /\ cur = NoFiles
    /\ output_dir \in outs
    /\ results_file \in (IF output_dir = "dir" THEN results ELSE {Absent})
    /\ history_file \in (IF output_dir = "dir" THEN histories ELSE {Absent})
    /\ dirs = [mp |-> "dir", pl |-> "dir"]
    /\ before = [out |-> output_dir, results |-> results_file,
                 history |-> history_file]

\* mutant of StartRun: the run stops only when both directories are missing
StartRun_BothMissing(U, max_runs) ==
    /\ pc = "idle"
    /\ runs < max_runs
    /\ \E flag \in BOOLEAN, mp_dir \in PathKinds, pl_dir \in PathKinds,
          listing \in SUBSET U.names :
          /\ runs' = runs + 1
          /\ export_json' = flag
          /\ all_rows' = <<>>
          /\ all_matches' = <<>>
          /\ party_counts' = <<>>
          /\ cur' = NoFiles
          /\ idx' = 1
          /\ dirs' = [mp |-> mp_dir, pl |-> pl_dir]
          /\ before' = [out |-> output_dir, results |-> results_file,
                        history |-> history_file]
          /\ IF mp_dir = "absent" /\ pl_dir = "absent"
             THEN /\ console' = <<<<"no_dirs">>>>
                  /\ mp_files' = <<>>
                  /\ pc' = "idle"
                  /\ exit' = "no_dirs"
             \* os.listdir of a regular file raises, outside any try
             ELSE IF mp_dir = "file"
             THEN /\ console' = <<>>
                  /\ mp_files' = <<>>
                  /\ pc' = "idle"
                  /\ exit' = "crashed"
             ELSE /\ console' = <<>>
                  /\ mp_files' = SortedStrings({f \in listing : EndsWith(f, JsonExt)})
                  /\ pc' = "loop"
                  /\ exit' = "running"
    /\ UNCHANGED <<results_file, history_file, output_dir>>

\* lines 183-188 and 10-23: the script starts; both directories must exist
StartRun(U, max_runs) ==
    /\ pc = "idle"
    /\ runs < max_runs
    /\ \E flag \in BOOLEAN, mp_dir \in PathKinds, pl_dir \in PathKinds,
          listing \in SUBSET U.names :
          /\ runs' = runs + 1
          /\ export_json' = flag
          /\ all_rows' = <<>>
          /\ all_matches' = <<>>
          /\ party_counts' = <<>>
          /\ cur' = NoFiles
          /\ idx' = 1
          /\ dirs' = [mp |-> mp_dir, pl |-> pl_dir]
          /\ before' = [out |-> output_dir, results |-> results_file,
                        history |-> history_file]
          /\ IF mp_dir = "absent" \/ pl_dir = "absent"
             THEN /\ console' = <<<<"no_dirs">>>>
                  /\ mp_files' = <<>>
                  /\ pc' = "idle"
                  /\ exit' = "no_dirs"
             \* os.listdir of a regular file raises, outside any try
             ELSE IF mp_dir = "file"
             THEN /\ console' = <<>>
                  /\ mp_files' = <<>>
                  /\ pc' = "idle"
                  /\ exit' = "crashed"
             ELSE /\ console' = <<>>
                  /\ mp_files' = SortedStrings({f \in listing : EndsWith(f, JsonExt)})
                  /\ pc' = "loop"
                  /\ exit' = "running"
    /\ UNCHANGED <<results_file, history_file, output_dir>>

\* mutant of ProcessArea: an error of one area ends the run
ProcessArea_Abort(U) ==
    /\ pc = "loop"
    /\ idx <= Len(mp_files)
    /\ LET C == U.files[mp_files[idx]]
       IN  \E mp \in Winners(C, AreaCode(mp_files[idx]))
                        \cup NoNumber(C, AreaCode(mp_files[idx])),
              pl \in PLFound(PLFiles(C)) :
              LET out == LoopBody(mp_files[idx], mp, pl)
                  raised == \E i \in DOMAIN out.lines : out.lines[i][1] = "error"
              IN  /\ all_rows' = all_rows \o out.rows
                  /\ all_matches' = all_matches \o out.matches
                  /\ console' = console \o out.lines
                  /\ cur' = [read |-> TRUE, file |-> mp_files[idx], mp |-> mp, pl |-> pl]
                  /\ pc' = IF raised THEN "idle" ELSE "loop"
                  /\ exit' = IF raised THEN "crashed" ELSE "running"
    /\ idx' = idx + 1
    /\ UNCHANGED <<runs, export_json, mp_files, party_counts,
                   results_file, history_file, output_dir, dirs, before>>

\* the body of the for loop on the two files of an area
Iteration(mp, pl) ==
    LET out == LoopBody(mp_files[idx], mp, pl)
    IN  /\ all_rows' = all_rows \o out.rows
        /\ all_matches' = all_matches \o out.matches
        /\ console' = console \o out.lines
        /\ cur' = [read |-> TRUE, file |-> mp_files[idx], mp |-> mp, pl |-> pl]

\* lines 25-99: one iteration of the for loop, with the two files it reads
ProcessArea(U) ==
    /\ pc = "loop"
    /\ idx <= Len(mp_files)
    /\ LET C == U.files[mp_files[idx]]
       IN  \/ \E mp \in Winners(C, AreaCode(mp_files[idx])),
                 pl \in PLFound(PLFiles(C)) : Iteration(mp, pl)
           \/ \E mp \in NoNumber(C, AreaCode(mp_files[idx])),
                 pl \in PLFound(PLPlain(C)) : Iteration(mp, pl)
    /\ idx' = idx + 1
    /\ UNCHANGED <<pc, runs, exit, export_json, mp_files, party_counts,
                   results_file, history_file, output_dir, dirs, before>>

\* lines 101-126: the summary, after the last iteration
Summary ==
    /\ pc = "loop"
    /\ idx > Len(mp_files)
    /\ LET counts == CountParties(all_matches, <<>>)
           table  == TableLines(SortedParties(counts))
       IN  /\ party_counts' = counts
           /\ console' = console \o (IF all_matches = <<>> THEN <<<<"no_matches">>>>
                                                            ELSE table.lines)
           /\ IF table.raised
              THEN pc' = "idle" /\ exit' = "crashed"
              ELSE IF export_json
              THEN pc' = "export" /\ exit' = "running"
              ELSE pc' = "idle" /\ exit' = "ok"
    /\ UNCHANGED <<runs, export_json, mp_files, idx, all_rows, all_matches, cur,
                   results_file, history_file, output_dir, dirs, before>>

\* lines 128-181: export_results
Export ==
    /\ pc = "export"
    /\ LET results == Results(runs, all_rows, all_matches, party_counts)
           history == LoadHistory(history_file)
       IN  \* line 133: os.makedirs raises FileExistsError on a regular file
           \* docs/data, NotADirectoryError below a regular file docs
           IF ~CanMake(output_dir)
           THEN /\ exit' = "crashed"
                /\ UNCHANGED <<output_dir, results_file, history_file, console>>
           \* line 155: open(results_path, "w")
           ELSE IF ~CanWrite(results_file)
           THEN /\ exit' = "crashed"
                /\ output_dir' = "dir"
                /\ UNCHANGED <<results_file, history_file, console>>
           \* line 170: history.append; line 178: open(history_path, "w")
           ELSE IF ~CanAppend(history) \/ ~CanWrite(history_file)
           THEN /\ exit' = "crashed"
                /\ output_dir' = "dir"
                /\ results_file' = [kind |-> "object", val |-> results]
                /\ history_file' = history_file
                /\ console' = console \o <<<<"exported">>>>
           ELSE /\ exit' = "ok"
                /\ output_dir' = "dir"
                /\ results_file' = [kind |-> "object", val |-> results]
                /\ history_file' = JsonArray(Append(history.val, Snapshot(results)))
                /\ console' = console \o <<<<"exported">>, <<"history_updated">>>>
    /\ pc' = "idle"
    /\ UNCHANGED <<runs, export_json, mp_files, idx, all_rows, all_matches,
                   party_counts, cur, dirs, before>>

Init == InitWith(OutputKinds, {Absent}, {Absent})

Next == StartRun(Rich, 1) \/ ProcessArea(Rich) \/ Summary \/ Export

Spec == Init /\ [][Next]_vars

InitRuns == InitWith(OutputKinds, ResultsFiles, HistoryFiles)

NextRuns == StartRun(Small, MaxRuns) \/ ProcessArea(Small) \/ Summary \/ Export

SpecRuns == InitRuns /\ [][NextRuns]_vars

----------------------------------------------------------------------------
(* What the claims speak of, read off the files of the last iteration (cur) *)
(* and the accumulated lists                                                *)

Range(seq) == {seq[i] : i \in DOMAIN seq}

Num06 == <<"0", "6">>

Num09 == <<"0", "9">>

\* the AreaCode of the last iteration: its file name minus the extension
CurArea == SubSeq(cur.file, 1, Len(cur.file) - Len(JsonExt))

RowsOf(area) == SelectSeq(all_rows, LAMBDA r : r.area = area)

MatchesOf(area) == SelectSeq(all_matches, LAMBDA m : m.area = area)

\* the AreaCode is present in both directories
Paired == cur.pl.kind # "missing"

\* the MP entries list; empty when the file has none (no key, null, [])
CurMPEntries ==
    IF /\ cur.mp.kind = "object" /\ "entries" \in DOMAIN cur.mp.obj
       /\ ~Falsy(cur.mp.obj.entries)
    THEN cur.mp.obj.entries ELSE <<>>

CurWinnerCode ==
    IF CurMPEntries # <<>> /\ "candidateCode" \in DOMAIN CurMPEntries[1]
    THEN CurMPEntries[1].candidateCode ELSE <<>>

\* the winning candidate code is null
WinnerIsNull == CurMPEntries # <<>> /\ IsNone(CurWinnerCode)

\* the winning candidate code starts with "CANDIDATE-MP-" + AreaCode
HasPrefix ==
    CurMPEntries # <<>> /\ StartsWith(CurWinnerCode, CandidatePrefix \o CurArea)

\* the remainder of the winning candidate code after the prefix
CurSuffix == DropFirst(CurWinnerCode, Len(CandidatePrefix) + Len(CurArea))

\* the PL file says "entries": null
PLEntriesNull ==
    /\ cur.pl.kind = "object" /\ "entries" \in DOMAIN cur.pl.obj
    /\ IsNone(cur.pl.obj.entries)

CurPLEntries ==
    IF /\ cur.pl.kind = "object" /\ "entries" \in DOMAIN cur.pl.obj
       /\ ~PLEntriesNull
    THEN cur.pl.obj.entries ELSE <<>>

\* the positions of the first 7 party-list entries
CurFirst7 == 1..(IF Len(CurPLEntries) < TopN THEN Len(CurPLEntries) ELSE TopN)

\* the party code of entry i, empty when it has none
CurPartyCode(i) == Get(CurPLEntries[i], "partyCode", <<>>)

\* a party-list entry whose party code is no string
BadEntry(i) == IsNone(CurPartyCode(i))

\* the first of the first 7 positions whose entry is bad, or one past them
CurFirstBad ==
    IF \E i \in CurFirst7 : BadEntry(i)
    THEN CHOOSE i \in CurFirst7 : BadEntry(i) /\ \A j \in 1..(i - 1) : ~BadEntry(j)
    ELSE Cardinality(CurFirst7) + 1

\* entry i ends in the MP number, and not in 06 or 09, whether or not the
\* MP number is empty
EntryEndsInNumber(i) ==
    /\ Paired /\ HasPrefix
    /\ ~BadEntry(i)
    /\ TakeLast(CurPartyCode(i), SuffixLen) = CurSuffix
    /\ ~EndsWith(CurPartyCode(i), Num06)
    /\ ~EndsWith(CurPartyCode(i), Num09)

\* entry i ends in the MP number, which is not empty, and not in 06 or 09
EntryMatches(i) == CurSuffix # <<>> /\ EntryEndsInNumber(i)

\* the entries at positions i..n that end in the MP number, empty or not,
\* in scan order
RECURSIVE EndingsFrom(_, _)
EndingsFrom(i, n) ==
    IF i > n THEN <<>>
    ELSE (IF EntryEndsInNumber(i) THEN <<CurPLEntries[i]>> ELSE <<>>)
             \o EndingsFrom(i + 1, n)

\* the matching entries at positions i..n, in scan order
RECURSIVE HitsFrom(_, _)
HitsFrom(i, n) ==
    IF i > n THEN <<>>
    ELSE (IF EntryMatches(i) THEN <<CurPLEntries[i]>> ELSE <<>>) \o HitsFrom(i + 1, n)

\* the rank of a party-list entry, None when it has none
RankOf(entry) == IF "rank" \in DOMAIN entry THEN entry.rank ELSE None

\* the match records of the last area, as (rank as printed, party code)
CurRecorded ==
    LET ms == MatchesOf(CurArea)
    IN  [i \in 1..Len(ms) |-> <<Str(ms[i].pl_rank), ms[i].pl_party_code>>]

AsRecorded(hits) ==
    [i \in 1..Len(hits) |-> <<Str(RankOf(hits[i])), Get(hits[i], "partyCode", <<>>)>>]

StatusOf(hits) ==
    Status([i \in 1..Len(hits) |->
               MatchLabel(RankOf(hits[i]),
                          TakeLast(Get(hits[i], "partyCode", <<>>), SuffixLen))])

\* the rank of a match record, if it has one, is at most n
RankWithin(m, n) == IsNone(m.pl_rank) \/ m.pl_rank <= n

\* the area meets every precondition of a Row
Qualifies ==
    /\ Paired /\ HasPrefix
    /\ CurSuffix # <<>>
    /\ cur.pl.kind = "object" /\ ~PLEntriesNull
    /\ \A i \in CurFirst7 : ~BadEntry(i)

----------------------------------------------------------------------------
(* C1 *)

\* C1 as stated: an area present in both directories with a non-empty MP
\* entries list and a winner code starting with the prefix has exactly one
\* Row, and every other area has none.
C1_AsStated ==
    cur.read => Len(RowsOf(CurArea)) = (IF Paired /\ HasPrefix THEN 1 ELSE 0)

\* C1, amended: the area has exactly one Row if it is present in both
\* directories, its MP entries list is non-empty, the winner code is the
\* prefix followed by at least one character, and its PL file is read and its
\* first 7 entries scanned without an error; otherwise it has no Row; the
\* loop goes on either way.
C1_RowIffQualifies ==
    cur.read =>
        /\ Len(RowsOf(CurArea)) = (IF Qualifies THEN 1 ELSE 0)
        /\ pc = "loop" => exit = "running"

C1_Witness ==
    /\ cur.read /\ Qualifies /\ Len(RowsOf(CurArea)) = 1
    /\ Len(all_rows) = 1 /\ idx = 3

----------------------------------------------------------------------------
(* C3 *)

\* C3: no match record has a PL party code ending in 06 or 09, whatever the
\* MP number; an area whose MP number is 06 or 09 has no match record, and
\* its Row, which it gets whenever it qualifies, says matched = false and
\* "No Match".
C3_Exclusion ==
    /\ \A i \in DOMAIN all_matches :
          /\ ~EndsWith(all_matches[i].pl_party_code, Num06)
          /\ ~EndsWith(all_matches[i].pl_party_code, Num09)
          /\ all_matches[i].mp_number \notin {Num06, Num09}
    /\ \A r \in Range(all_rows) :
          r.mp_number \in {Num06, Num09} => ~r.matched /\ r.status = NoMatch
    /\ (cur.read /\ Qualifies /\ CurSuffix \in {Num06, Num09})
          => /\ Len(RowsOf(CurArea)) = 1
             /\ RowsOf(CurArea)[1].mp_number = CurSuffix

C3_Witness ==
    /\ cur.read /\ Qualifies /\ CurSuffix = Num09
    /\ \E i \in CurFirst7 : EndsWith(CurPartyCode(i), Num09)
    /\ Len(RowsOf(CurArea)) = 1
    /\ RowsOf(CurArea)[1].status = NoMatch

----------------------------------------------------------------------------
(* C4 *)

\* C4 as stated: for every area the match records are exactly the entries
\* among the first 7 that end in the MP number (and not in 06 or 09), in scan
\* order; no record has a rank beyond 7; the status lists them in that order.
C4_AsStated ==
    cur.read =>
        /\ CurRecorded = AsRecorded(EndingsFrom(1, Cardinality(CurFirst7)))
        /\ \A i \in DOMAIN all_matches : RankWithin(all_matches[i], TopN)
        /\ RowsOf(CurArea) # <<>> =>
              RowsOf(CurArea)[1].status
                  = StatusOf(EndingsFrom(1, Cardinality(CurFirst7)))

\* C4, amended: an area whose MP number is empty has no match record; the
\* match records of any other area are exactly the matching entries among
\* the first 7 that precede the first entry the scan fails on (all of the
\* first 7 when it fails on none), in scan order; no entry at position 8 or
\* later produces a match; the status of the Row lists them in that order.
C4_FirstSeven ==
    cur.read =>
        /\ CurSuffix = <<>> => MatchesOf(CurArea) = <<>>
        /\ CurRecorded = AsRecorded(HitsFrom(1, CurFirstBad - 1))
        /\ \A i \in DOMAIN all_matches : RankWithin(all_matches[i], TopN)
        /\ RowsOf(CurArea) # <<>> =>
              RowsOf(CurArea)[1].status = StatusOf(HitsFrom(1, CurFirstBad - 1))

C4_Witness ==
    /\ cur.read /\ Qualifies
    /\ Len(CurPLEntries) > TopN
    /\ EntryMatches(TopN) /\ EntryMatches(TopN + 1)
    /\ Len(MatchesOf(CurArea)) = 1
    /\ Str(MatchesOf(CurArea)[1].pl_rank) = NatStr(TopN)

----------------------------------------------------------------------------
(* C9 *)

\* C9 as stated: a match has last_2 equal to the MP number as strings, and an
\* MP number whose length is not 2 has no match.
C9_AsStated ==
    /\ \A i \in DOMAIN all_matches :
          /\ TakeLast(all_matches[i].pl_party_code, SuffixLen) = all_matches[i].mp_number
          /\ Len(all_matches[i].mp_number) = SuffixLen
    /\ \A r \in Range(all_rows) : Len(r.mp_number) # SuffixLen => ~r.matched

\* C9, amended: a match has last_2 equal to the MP number as strings; an MP
\* number longer than 2 characters has no match; an MP number of one
\* character matches only a PL party code that is that one character.
C9_ExactString ==
    /\ \A i \in DOMAIN all_matches :
          /\ TakeLast(all_matches[i].pl_party_code, SuffixLen) = all_matches[i].mp_number
          /\ Len(all_matches[i].mp_number) <= SuffixLen
          /\ Len(all_matches[i].mp_number) < SuffixLen
                 => all_matches[i].pl_party_code = all_matches[i].mp_number
    /\ \A r \in Range(all_rows) : Len(r.mp_number) > SuffixLen => ~r.matched

C9_Witness ==
    /\ cur.read /\ Qualifies /\ CurSuffix = <<"5">>
    /\ \E i \in CurFirst7 : CurPartyCode(i) = <<"P", "0", "5">>
    /\ \E i \in CurFirst7 : CurPartyCode(i) = <<"5">>
    /\ Len(MatchesOf(CurArea)) = 1

----------------------------------------------------------------------------
(* C10 *)

\* C10: once the loop is over, every match record belongs to an area that has
\* a Row, that Row has matched = true and a status starting with "MATCH: ", a
\* Row has matched = true exactly when its area has a match record, and so
\* matched_areas <= total_areas and matched_areas <= number of match records.
C10_Consistent ==
    (runs > 0 /\ ~(pc = "loop" /\ idx <= Len(mp_files))) =>
        /\ \A i \in DOMAIN all_matches :
              \E r \in Range(all_rows) :
                  /\ r.area = all_matches[i].area
                  /\ r.matched /\ StartsWith(r.status, MatchHead)
        /\ \A r \in Range(all_rows) :
              r.matched <=> \E i \in DOMAIN all_matches : all_matches[i].area = r.area
        /\ MatchedAreas(all_rows) <= Len(all_rows)
        /\ MatchedAreas(all_rows) <= Len(all_matches)

----------------------------------------------------------------------------
(* C2 *)

\* reading, parsing or processing the last area raised an error
CurRaises ==
    /\ Paired
    /\ \/ cur.mp.kind = "unreadable"
       \/ WinnerIsNull
       \/ /\ HasPrefix /\ CurSuffix # <<>>
          /\ \/ cur.pl.kind = "unreadable"
             \/ PLEntriesNull
             \/ \E i \in CurFirst7 : BadEntry(i)
             \/ IsNone(Get(CurMPEntries[1], "partyCode", Unknown))

ErrorsLogged(area) ==
    Cardinality({i \in DOMAIN console : console[i] = <<"error", area>>})

\* C2: an iteration whose area raises an error logs it once for that area;
\* every iteration, failing or not, leaves the rows and matches of the other
\* areas as they were and hands over to the next file, so that the loop ends
\* in the summary stage.
C2_ErrorIsolated ==
    [][ (pc = "loop" /\ idx <= Len(mp_files)) =>
            /\ pc' = "loop" /\ exit' = "running"
            /\ idx' = idx + 1 /\ mp_files' = mp_files
            /\ CurArea' = SubSeq(mp_files[idx], 1, Len(mp_files[idx]) - Len(JsonExt))
            /\ SelectSeq(all_rows', LAMBDA r : r.area # CurArea') = all_rows
            /\ SelectSeq(all_matches', LAMBDA m : m.area # CurArea') = all_matches
            /\ SelectSeq(console', LAMBDA l : l[2] # CurArea') = console
            /\ ErrorsLogged(CurArea)' = (IF CurRaises' THEN 1 ELSE 0)
      ]_vars

C2_Witness ==
    /\ pc = "idle" /\ exit = "ok"
    /\ Len(mp_files) = 2
    /\ console[1] = <<"error", AreaCode(mp_files[1])>>
    /\ Len(all_matches) > 1
    /\ Len(all_rows) = 1 /\ all_rows[1].area = AreaCode(mp_files[2])

----------------------------------------------------------------------------
(* C5 *)

\* the summary stage of the current run is over
Summarised ==
    \/ pc = "export"
    \/ pc = "idle" /\ exit \in {"ok", "crashed"} /\ dirs.mp = "dir"

\* the parties of the match records, as dict keys
MatchParties == {Key(all_matches[i].mp_party) : i \in DOMAIN all_matches}

Occurrences(p) ==
    Cardinality({i \in DOMAIN all_matches : Key(all_matches[i].mp_party) = Key(p)})

FirstSeen(p) ==
    CHOOSE i \in DOMAIN all_matches :
        /\ Key(all_matches[i].mp_party) = Key(p)
        /\ \A j \in 1..(i - 1) : Key(all_matches[j].mp_party) # Key(p)

RECURSIVE SumCounts(_)
SumCounts(list) == IF list = <<>> THEN 0 ELSE list[1][2] + SumCounts(Tail(list))

\* list holds each party of the match records once, with its number of
\* occurrences
IsCount(list) ==
    /\ Len(list) = Cardinality(MatchParties)
    /\ {Key(list[i][1]) : i \in DOMAIN list} = MatchParties
    /\ \A i \in DOMAIN list : list[i][2] = Occurrences(list[i][1])
    /\ SumCounts(list) = Len(all_matches)

\* counts descend, and equal counts keep the order of first occurrence
IsOrdered(list) ==
    \A i, j \in DOMAIN list :
        i < j => \/ list[i][2] > list[j][2]
                 \/ /\ list[i][2] = list[j][2]
                    /\ FirstSeen(list[i][1]) < FirstSeen(list[j][1])

\* the table the run printed
ConsoleTable ==
    LET rows == SelectSeq(console, LAMBDA l : l[1] = "count")
    IN  [i \in 1..Len(rows) |-> <<rows[i][2], rows[i][3]>>]

\* summary_by_party of the results file
ExportedTable ==
    LET sum == results_file.val.summary_by_party
    IN  [i \in 1..Len(sum) |-> <<sum[i].party_code, sum[i].match_count>>]

Exported == \E i \in DOMAIN console : console[i] = <<"exported">>

\* C5: after the summary stage party_counts holds the number of match records
\* of each MP party (they add up to the number of match records); the printed
\* table and summary_by_party of an export list them by count descending,
\* equal counts in the order of their first match.
C5_Summary ==
    Summarised =>
        /\ IsCount(party_counts)
        /\ IsCount(ConsoleTable) /\ IsOrdered(ConsoleTable)
        /\ Exported => IsCount(ExportedTable) /\ IsOrdered(ExportedTable)

----------------------------------------------------------------------------
(* C6, C7 and C8: the output files, over repeated runs *)

\* the current run is over
Finished == pc = "idle" /\ runs > 0

FilesUntouched == results_file = before.results /\ history_file = before.history

\* C6: an export that finds no well-formed history array (the file is absent,
\* cannot be read, is not JSON, or holds JSON that is no array) does not crash
\* and leaves a history of exactly one element.
C6_OneElement ==
    (Finished /\ Exported /\ before.history.kind # "array") =>
        /\ exit = "ok"
        /\ history_file.kind = "array"
        /\ Len(history_file.val) = 1

\* C7: a run that finds data/mp or data/pl missing reports it once and does
\* nothing else: it reads no file, produces no Row, no match and no summary,
\* and leaves both output files as they were, with or without --export.
C7_NoDirs ==
    (runs > 0 /\ (dirs.mp = "absent" \/ dirs.pl = "absent")) =>
        /\ pc = "idle" /\ exit = "no_dirs"
        /\ console = <<<<"no_dirs">>>>
        /\ ~cur.read
        /\ all_rows = <<>> /\ all_matches = <<>> /\ party_counts = <<>>
        /\ FilesUntouched /\ output_dir = before.out

C7_Witness ==
    /\ runs > 1 /\ export_json /\ dirs.mp = "dir" /\ dirs.pl = "absent"
    /\ exit = "no_dirs"
    /\ results_file.kind = "object"
    /\ history_file.kind = "array" /\ Len(history_file.val) = 2

\* the history is the one the run found plus one snapshot, which carries the
\* totals of the results file; the results file is this run's result
Appended ==
    /\ history_file.kind = "array"
    /\ Len(history_file.val) = Len(before.history.val) + 1
    /\ SubSeq(history_file.val, 1, Len(before.history.val)) = before.history.val
    /\ results_file.kind = "object"
    /\ LET last == history_file.val[Len(history_file.val)]
           res  == results_file.val
       IN  /\ last.timestamp = res.timestamp
           /\ last.total_areas = res.total_areas
           /\ last.matched_areas = res.matched_areas
           /\ last.match_rate = res.match_rate
           /\ last.summary_by_party = res.summary_by_party
           /\ res.details = all_rows
           /\ res.matches = all_matches
           /\ res.total_areas = Len(all_rows)
           /\ \A i \in 1..Len(before.history.val) :
                  before.history.val[i].timestamp # res.timestamp

\* C8: a run without --export leaves both files as they were; every run with
\* --export that finds both input directories (the run of C7 is over before
\* any export) and a history array of length n leaves one of length n + 1:
\* the n snapshots in their order and the snapshot of this run's results
\* file.
C8_AppendOnly ==
    Finished =>
        /\ ~export_json => FilesUntouched
        /\ (export_json /\ exit # "no_dirs" /\ before.history.kind = "array")
               => Appended

============================================================================
